---- MODULE Spec2Model ----
(***************************************************************************)
(* Model of the item service of src/main.go: five fiber handlers           *)
(* (getItems, getItem, createItem, updateItem, deleteTodo) over one        *)
(* MongoDB collection, Items.  The collection is a set of documents with   *)
(* unique _id; every handler makes one store call, except updateItem,      *)
(* which makes two (FindOne, then UpdateOne) and is therefore two steps    *)
(* that other requests can interleave with.  The store is taken to be up:  *)
(* the only store errors are a duplicate _id and a lookup that finds no    *)
(* document.                                                               *)
(***************************************************************************)
EXTENDS Integers, Sequences, FiniteSets, TLC

\* ------------------------------------------------------------------ bounds
MaxId == 2         \* ObjectIDs are 0..MaxId (0 is the zero ObjectID)
MaxNow == 2        \* number of time.Now() calls, i.e. of createItem requests
MaxListDocs == 11  \* documents in the collections getItems is applied to

\* --------------------------------------------------------------- constants
PageSize == 10     \* limit := int64(10 * pageInt)
NilObjectID == 0   \* primitive.NilObjectID, the zero value of Item.ID

\* ------------------------------------------------------------ identifiers
\* The updateItem requests that can be between their two store calls.
Procs == {1, 2}

\* ObjectID.Hex(): the 24 hex digit form of an ObjectID.
Hex(oid) == "00000000000000000000000" \o ToString(oid)

\* primitive.ObjectIDFromHex: the ObjectID (the zero one included) a string
\* is the hex form of, or NilObjectID and an error.
HexStrings == {Hex(o) : o \in 0..MaxId}

ObjectIDFromHex(s) ==
    IF s \in HexStrings
    THEN [err |-> FALSE, oid |-> CHOOSE o \in 0..MaxId : Hex(o) = s]
    ELSE [err |-> TRUE, oid |-> NilObjectID]

\* ------------------------------------------------------------------ Item
ZeroItem ==
    [ID |-> NilObjectID, Title |-> "", Description |-> "", Price |-> "",
     CreatedAt |-> "", Category |-> ""]

\* time.Now().GoString() at the n-th reading of the clock.
GoString(n) == "t" \o ToString(n)

\* c.BodyParser(item): decodes a JSON body into an Item.  A body that is not
\* JSON, or whose "id" is not the hex form of an ObjectID (ObjectID's
\* UnmarshalJSON), is an error; an absent or empty "id" leaves ID zero.
BodyParser(raw) ==
    IF ~raw.json THEN [err |-> TRUE, item |-> ZeroItem]
    ELSE IF raw.id # "" /\ ObjectIDFromHex(raw.id).err
         THEN [err |-> TRUE, item |-> ZeroItem]
    ELSE [err |-> FALSE,
          item |-> [ID |-> IF raw.id = "" THEN NilObjectID
                           ELSE ObjectIDFromHex(raw.id).oid,
                    Title |-> raw.title, Description |-> raw.description,
                    Price |-> raw.price, CreatedAt |-> raw.createdAt,
                    Category |-> raw.category]]

\* ------------------------------------------------------------------ state
VARIABLES
    store,    \* Items: the collection, a set of documents
    counter,  \* the driver's ObjectID generator (last id it produced)
    now,      \* the clock: number of time.Now() readings so far
    upd,      \* updateItem requests between FindOne and UpdateOne
    resp,     \* the response of the last completed request
    seen,     \* history: every _id ever stored
    pristine, \* history: items createItem returned, not written or deleted since
    script,   \* race scenario: the body each of the two racing requests sends
    base,     \* race scenario: the document both requests address
    issued    \* race scenario: the requests already issued

vars == <<store, counter, now, upd, resp, seen, pristine, script, base, issued>>
hist == <<seen, pristine>>
race == <<script, base, issued>>

IdsOf(S) == {d.ID : d \in S}

Idle == [pc |-> "idle", objectID |-> NilObjectID, item |-> ZeroItem]

Resp(op, status, idstr, msg, item, items) ==
    [op |-> op, status |-> status, idstr |-> idstr, msg |-> msg,
     item |-> item, items |-> items]

\* A handler returning err: fiber's default ErrorHandler answers 500.
ErrResp(op, idstr) == Resp(op, 500, idstr, "err", ZeroItem, <<>>)

\* ------------------------------------------------------------- the store
\* Items.FindOne(bson.M{"_id": objectID}) and cursor.Decode.
FindOne(S, oid) ==
    IF \E d \in S : d.ID = oid
    THEN [err |-> FALSE, item |-> CHOOSE d \in S : d.ID = oid]
    ELSE [err |-> TRUE, item |-> ZeroItem]

\* Items.InsertOne(item): _id is the item's ID unless it is zero (omitempty),
\* and then the next ObjectID of the driver; a duplicate _id is an error.
\* The driver's ObjectIDs follow a counter, and a request body can name any
\* ObjectID, one the driver has yet to produce included.
InsertedID(item, cnt) == IF item.ID = NilObjectID THEN cnt + 1 ELSE item.ID

\* InsertOne as it would be if createdAt were left out of the stored document.
InsertOne_DropCreatedAt(S, item, cnt) ==
    LET oid == InsertedID(item, cnt) IN
    IF oid \in IdsOf(S) THEN [err |-> TRUE, id |-> oid, store |-> S]
    ELSE [err |-> FALSE, id |-> oid,
          store |-> S \cup {[item EXCEPT !.ID = oid, !.CreatedAt = ""]}]

InsertOne(S, item, cnt) ==
    LET oid == InsertedID(item, cnt) IN
    IF oid \in IdsOf(S) THEN [err |-> TRUE, id |-> oid, store |-> S]
    ELSE [err |-> FALSE, id |-> oid, store |-> S \cup {[item EXCEPT !.ID = oid]}]

\* Items.UpdateOne(filter, {"$set": {title, description, price, category}}):
\* no upsert, so no match changes nothing.
\* UpdateOne as it would be with the upsert option set.
UpdateOne_Upsert(S, oid, item) ==
    IF oid \in IdsOf(S)
    THEN {IF d.ID = oid
          THEN [d EXCEPT !.Title = item.Title, !.Description = item.Description,
                         !.Price = item.Price, !.Category = item.Category]
          ELSE d : d \in S}
    ELSE S \cup {[ZeroItem EXCEPT !.ID = oid, !.Title = item.Title,
                                  !.Description = item.Description,
                                  !.Price = item.Price, !.Category = item.Category]}

UpdateOne(S, oid, item) ==
    {IF d.ID = oid
     THEN [d EXCEPT !.Title = item.Title, !.Description = item.Description,
                    !.Price = item.Price, !.Category = item.Category]
     ELSE d : d \in S}

\* Items.DeleteOne(bson.M{"_id": objectID}).
\* DeleteOne as it would be with the filter on "id", a field no document has.
DeleteOne_WrongKey(S, oid) == {d \in S : d.ID # oid \/ d.ID = d.ID}

DeleteOne(S, oid) == {d \in S : d.ID # oid}

\* -------------------------------------------------------------- createItem
\* The body has the four required fields.
AllRequired(raw) ==
    raw.title # "" /\ raw.description # "" /\ raw.price # "" /\ raw.category # ""

createItem(raw) ==
    LET p == BodyParser(raw)
        item == [p.item EXCEPT !.CreatedAt = GoString(now + 1)]
        ins == InsertOne(store, item, counter)
        bad(msg) == /\ resp' = Resp("createItem", 400, "", msg, ZeroItem, <<>>)
                    /\ UNCHANGED <<store, counter, now, upd, hist>>
    IN
    /\ now < MaxNow
    /\ (~p.err /\ AllRequired(raw) /\ p.item.ID = NilObjectID) => counter < MaxId
    /\ IF p.err
       THEN /\ resp' = ErrResp("createItem", "")
            /\ UNCHANGED <<store, counter, now, upd, hist>>
       ELSE IF p.item.Title = "" THEN bad("Title is required")
       ELSE IF p.item.Description = "" THEN bad("Description is required")
       ELSE IF p.item.Price = "" THEN bad("Price is required")
       ELSE IF p.item.Category = "" THEN bad("Category is required")
       ELSE /\ now' = now + 1
            /\ counter' = IF item.ID = NilObjectID THEN counter + 1 ELSE counter
            /\ store' = ins.store
            /\ UNCHANGED upd
            /\ IF ins.err
               THEN /\ resp' = ErrResp("createItem", "")
                    /\ UNCHANGED hist
               ELSE /\ resp' = Resp("createItem", 201, "", "",
                                    [item EXCEPT !.ID = ins.id], <<>>)
                    /\ seen' = seen \cup {ins.id}
                    /\ pristine' = pristine \cup {resp'.item}

\* ----------------------------------------------------------------- getItem
getItem(idstr) ==
    LET r == ObjectIDFromHex(idstr)
        f == FindOne(store, r.oid)
    IN
    /\ resp' = IF r.err THEN Resp("getItem", 400, idstr, "Invalid ID", ZeroItem, <<>>)
               ELSE IF f.err
                    THEN Resp("getItem", 500, idstr, "Error fetching item", ZeroItem, <<>>)
               ELSE Resp("getItem", 200, idstr, "", f.item, <<>>)
    /\ UNCHANGED <<store, counter, now, upd, hist>>

\* -------------------------------------------------------------- updateItem
\* The merge of the body's non-empty updatable fields into the fetched item.
Merge(item, newItem) ==
    [item EXCEPT
        !.Title = IF newItem.Title # "" THEN newItem.Title ELSE @,
        !.Description = IF newItem.Description # "" THEN newItem.Description ELSE @,
        !.Price = IF newItem.Price # "" THEN newItem.Price ELSE @,
        !.Category = IF newItem.Category # "" THEN newItem.Category ELSE @]

NothingToUpdate(newItem) ==
    /\ newItem.Title = ""
    /\ newItem.Description = ""
    /\ newItem.Price = ""
    /\ newItem.Category = ""

\* First step: parse, FindOne, validate and merge.
updateItemFetch(p, idstr, raw) ==
    LET r == ObjectIDFromHex(idstr)
        b == BodyParser(raw)
        f == FindOne(store, r.oid)
        answer(status, msg) ==
            /\ resp' = Resp("updateItem", status, idstr, msg, ZeroItem, <<>>)
            /\ UNCHANGED upd
    IN
    /\ upd[p].pc = "idle"
    /\ IF b.err THEN answer(500, "err")
       ELSE IF r.err THEN answer(400, "Invalid ID")
       ELSE IF f.err THEN answer(500, "Error fetching item")
       ELSE IF NothingToUpdate(b.item)
            THEN answer(400, "Title, Description, Price or Category is required")
       ELSE /\ upd' = [upd EXCEPT ![p] =
                          [pc |-> "write", objectID |-> r.oid,
                           item |-> Merge(f.item, b.item)]]
            /\ UNCHANGED resp
    /\ UNCHANGED <<store, counter, now, hist>>

\* Second step: UpdateOne and the answer.
updateItemWrite(p) ==
    /\ upd[p].pc = "write"
    /\ store' = UpdateOne(store, upd[p].objectID, upd[p].item)
    /\ resp' = Resp("updateItem", 200, Hex(upd[p].objectID), "success", ZeroItem, <<>>)
    /\ upd' = [upd EXCEPT ![p] = Idle]
    /\ pristine' = {it \in pristine : it.ID # upd[p].objectID}
    /\ UNCHANGED <<counter, now, seen>>

\* -------------------------------------------------------------- deleteTodo
deleteTodo(idstr) ==
    LET r == ObjectIDFromHex(idstr) IN
    IF r.err
    THEN /\ resp' = Resp("deleteTodo", 400, idstr, "Invalid ID", ZeroItem, <<>>)
         /\ UNCHANGED <<store, counter, now, upd, hist>>
    ELSE /\ store' = DeleteOne(store, r.oid)
         /\ resp' = Resp("deleteTodo", 200, idstr, "success", ZeroItem, <<>>)
         /\ pristine' = {it \in pristine : it.ID # r.oid}
         /\ UNCHANGED <<counter, now, upd, seen>>

\* ---------------------------------------------------------------- getItems
\* strconv.Atoi on the page strings the requests use: a decimal integer, with
\* or without sign, or an error.
AtoiRange == -2..3

Atoi(s) ==
    IF \E n \in AtoiRange : ToString(n) = s
    THEN [err |-> FALSE, n |-> CHOOSE n \in AtoiRange : ToString(n) = s]
    ELSE [err |-> TRUE, n |-> 0]

\* The store compares strings byte by byte.  Rank of a string among the
\* strings the model uses, in that order.
Alphabet == <<"", "a", "b", "c">>

\* The clock readings, by their string: "t1" < "t10" < "t11" < "t2".
ClockOf == [s \in {GoString(k) : k \in 0..99} |-> CHOOSE k \in 0..99 : GoString(k) = s]

LexRank(s) ==
    IF \E i \in 1..Len(Alphabet) : Alphabet[i] = s
    THEN CHOOSE i \in 1..Len(Alphabet) : Alphabet[i] = s
    ELSE LET n == ClockOf[s]
         IN  Len(Alphabet) + 1 + (IF n < 10 THEN 100 * n ELSE 10 * n + 1)

\* The value a document is sorted by: the bson field named key; a field no
\* document has compares equal (null) for all of them.
SortKey(d, key) ==
    CASE key = "_id" -> d.ID
      [] key = "title" -> LexRank(d.Title)
      [] key = "description" -> LexRank(d.Description)
      [] key = "price" -> LexRank(d.Price)
      [] key = "createdAt" -> LexRank(d.CreatedAt)
      [] key = "category" -> LexRank(d.Category)
      [] OTHER -> 0

\* x comes before y under sort {key: dir}; documents with equal keys come in
\* an order the store chooses (tie).
Before(x, y, key, dir, tie) ==
    LET kx == SortKey(x, key)
        ky == SortKey(y, key)
    IN IF kx # ky THEN (IF dir = 1 THEN kx < ky ELSE kx > ky)
       ELSE (IF tie = 1 THEN x.ID < y.ID ELSE x.ID > y.ID)

RECURSIVE SortDocs(_, _, _, _)
SortDocs(S, key, dir, tie) ==
    IF S = {} THEN <<>>
    ELSE LET m == CHOOSE x \in S : \A y \in S \ {x} : Before(x, y, key, dir, tie)
         IN  <<m>> \o SortDocs(S \ {m}, key, dir, tie)

Min(a, b) == IF a < b THEN a ELSE b

\* Items.Find(filter, {Sort, Limit}) and the cursor loop: limit 0 is no limit,
\* a negative limit is its absolute value (one batch).
Find(S, category, key, dir, limit, tie) ==
    LET matches == {d \in S : category = "" \/ d.Category = category}
        sorted == SortDocs(matches, key, dir, tie)
        n == IF limit = 0 THEN Len(sorted)
             ELSE Min(IF limit < 0 THEN -limit ELSE limit, Len(sorted))
    IN SubSeq(sorted, 1, n)

getItems(q, tie) ==
    LET page == IF q.page = "" THEN "1" ELSE q.page
        sortBy == IF q.sortBy = "" THEN "createdAt" ELSE q.sortBy
        sortOrder == IF q.sortOrder = "" THEN "desc" ELSE q.sortOrder
        dir == IF sortOrder = "desc" THEN -1 ELSE 1
        pageInt == Atoi(page)
        limit == PageSize * pageInt.n
    IN
    /\ resp' = IF pageInt.err
               THEN Resp("getItems", 400, "", "Invalid page number", ZeroItem, <<>>)
               ELSE Resp("getItems", 200, "", "", ZeroItem,
                         Find(store, q.category, sortBy, dir, limit, tie))
    /\ UNCHANGED <<store, counter, now, upd, hist>>

\* ------------------------------------------------------------------ inputs
Raw(id, title, description, price, category) ==
    [json |-> TRUE, id |-> id, title |-> title, description |-> description,
     price |-> price, createdAt |-> "", category |-> category]

NotJSON == [Raw("", "", "", "", "") EXCEPT !.json = FALSE]

IdStrings == HexStrings \cup {"zz"}

\* Bodies of createItem requests: with and without an "id", one with a
\* "createdAt" of the client's.
CreateBodies ==
    {NotJSON, [Raw("", "a", "a", "a", "a") EXCEPT !.createdAt = "c"]} \cup
    {Raw(id, t, d, p, c) : id \in IdStrings \cup {""}, t \in {"", "a"},
                           d \in {"", "a"}, p \in {"", "a"}, c \in {"", "a"}}

\* Bodies of updateItem requests.
UpdateBodies ==
    {NotJSON} \cup
    {Raw("", "", "", "", ""), Raw("", "b", "", "", ""), Raw("", "b", "b", "b", "b")}

Queries ==
    [page : {"", "x", "0", "-1", "1", "2"}, sortBy : {"", "_id", "title", "id"},
     sortOrder : {"", "asc", "desc"}, category : {"", "a", "c"}]

NoScript == [p \in {1, 2} |-> NotJSON]

\* ----------------------------------------------------- the service (Spec)
Init ==
    /\ store = {}
    /\ counter = 0
    /\ now = 0
    /\ upd = [p \in Procs |-> Idle]
    /\ resp = Resp("none", 0, "", "", ZeroItem, <<>>)
    /\ seen = {}
    /\ pristine = {}
    /\ script = NoScript
    /\ base = ZeroItem
    /\ issued = {}

Create == \E raw \in CreateBodies : createItem(raw) /\ UNCHANGED race
Get == \E s \in IdStrings : getItem(s) /\ UNCHANGED race
\* One updateItem request at a time is between its two store calls here, with
\* every other request interleaved; SpecRace has two of them racing.
UpdateFetch ==
    \E s \in IdStrings, raw \in UpdateBodies :
        updateItemFetch(1, s, raw) /\ UNCHANGED race
UpdateWrite == updateItemWrite(1) /\ UNCHANGED race
Delete == \E s \in IdStrings : deleteTodo(s) /\ UNCHANGED race

Next == Create \/ Get \/ UpdateFetch \/ UpdateWrite \/ Delete

Spec == Init /\ [][Next]_vars

\* ------------------------------------------ two racing updates (SpecRace)
\* Two updateItem requests on the same document, each sending its own body,
\* their store calls interleaved in every way.  The collection holds the
\* document they address and one other.
RaceBodies ==
    {NotJSON} \cup
    {Raw("", t, d, p, c) : t \in {"", "b", "c"}, d \in {"", "b"},
                           p \in {"", "b", "c"}, c \in {"", "b"}}

RaceDoc(id) ==
    [ID |-> id, Title |-> "a", Description |-> "a", Price |-> "a",
     CreatedAt |-> GoString(id), Category |-> "a"]

InitRace ==
    /\ store = {RaceDoc(1), RaceDoc(2)}
    /\ counter = 2
    /\ now = 2
    /\ upd = [p \in Procs |-> Idle]
    /\ resp = Resp("none", 0, "", "", ZeroItem, <<>>)
    /\ seen = {1, 2}
    /\ pristine = {RaceDoc(1), RaceDoc(2)}
    /\ script \in [Procs -> RaceBodies]
    /\ base = RaceDoc(1)
    /\ issued = {}

RaceFetch ==
    \E p \in Procs \ issued :
        /\ updateItemFetch(p, Hex(base.ID), script[p])
        /\ issued' = issued \cup {p}
        /\ UNCHANGED <<script, base>>

RaceWrite == \E p \in Procs : updateItemWrite(p) /\ UNCHANGED race

NextRace == RaceFetch \/ RaceWrite

SpecRace == InitRace /\ [][NextRace]_vars

\* ------------------------------------------------- listing (SpecList)
\* getItems applied to collections of up to MaxListDocs documents, as
\* createItem leaves them: ids and clock readings 1..n.
ListDoc(i, mixed) ==
    [ID |-> i, Title |-> IF i % 3 = 0 THEN "b" ELSE "a", Description |-> "a",
     Price |-> "a", CreatedAt |-> GoString(i),
     Category |-> IF mixed /\ i % 2 = 0 THEN "b" ELSE "a"]

InitList ==
    \E n \in 0..MaxListDocs, mixed \in BOOLEAN :
        /\ store = {ListDoc(i, mixed) : i \in 1..n}
        /\ counter = n
        /\ now = n
        /\ upd = [p \in Procs |-> Idle]
        /\ resp = Resp("none", 0, "", "", ZeroItem, <<>>)
        /\ seen = 1..n
        /\ pristine = {ListDoc(i, mixed) : i \in 1..n}
        /\ script = NoScript
        /\ base = ZeroItem
        /\ issued = {}

List == \E q \in Queries, tie \in {1, -1} : getItems(q, tie) /\ UNCHANGED race

NextList == List

SpecList == InitList /\ [][NextList]_vars

\* ================================================================ claims
Oid(s) == ObjectIDFromHex(s).oid

\* C1: a createItem request whose title, description, price and category are
\* all non-empty, with or without an "id" in its body, is answered 201 with a
\* document whose identifier was never stored or returned before and is not
\* the identifier the client sent.
C1_CreateAssignsFreshId ==
    [][\A raw \in CreateBodies :
          (raw.json /\ ~BodyParser(raw).err /\ AllRequired(raw) /\ createItem(raw))
          => /\ resp'.status = 201
             /\ resp'.item.ID \notin seen
             /\ resp'.item.ID \notin IdsOf(store)
             /\ raw.id # "" => Hex(resp'.item.ID) # raw.id]_vars

\* C2: a createItem request in whose body one of title, description, price,
\* category is missing or empty is answered 400 and leaves the collection as
\* it was.
C2_MissingFieldIs400 ==
    [][\A raw \in CreateBodies :
          (raw.json /\ ~AllRequired(raw) /\ createItem(raw))
          => (resp'.status = 400 /\ store' = store)]_vars

\* C3: getItem on the identifier of a document createItem returned, with no
\* UpdateOne or DeleteOne on that identifier since, is answered 200 with a
\* document equal in all six fields to the one createItem returned.  (resp is
\* the answer to the last request completed; every request that changes the
\* collection or pristine replaces it.)
C3_RoundTrip ==
    resp.op = "getItem" =>
        \A it \in pristine :
            Hex(it.ID) = resp.idstr => (resp.status = 200 /\ resp.item = it)

C3_Witness ==
    /\ resp.op = "getItem"
    /\ resp.status = 200
    /\ resp.item \in pristine
    /\ resp.item.CreatedAt # ""

\* C4: with an identifier that is not the hex form of an ObjectID, getItem,
\* updateItem and deleteTodo are answered 400 and leave the collection as it
\* was, whatever the body.
C4_MalformedIdIs400 ==
    [][\A s \in IdStrings :
          (/\ ObjectIDFromHex(s).err
           /\ \/ getItem(s)
              \/ deleteTodo(s)
              \/ \E raw \in UpdateBodies : updateItemFetch(1, s, raw))
          => (resp'.status = 400 /\ store' = store)]_vars

\* C5: the UpdateOne of an updateItem request on a document of the collection
\* overwrites exactly the updatable fields that are non-empty in the request's
\* body: the document becomes the merge of the body into the stored document,
\* and every other document stays as it was.
C5_WriteMergesBodyIntoStored ==
    [][\A p \in Procs :
          (updateItemWrite(p) /\ upd[p].objectID \in IdsOf(store))
          => LET old == FindOne(store, upd[p].objectID).item
                 body == BodyParser(script[p]).item
             IN  store' = (store \ {old}) \cup {Merge(old, body)}]_vars

\* C6: deleteTodo with a well-formed identifier is answered 200 whether or not
\* a document has it, and leaves no document with it; getItem on an identifier
\* no document has is answered with the error "Error fetching item" and no
\* document.
C6_DeleteIdempotent ==
    /\ (resp.op = "deleteTodo" /\ resp.idstr \in HexStrings)
       => (resp.status = 200 /\ Oid(resp.idstr) \notin IdsOf(store))
    /\ (/\ resp.op = "getItem"
        /\ resp.idstr \in HexStrings
        /\ Oid(resp.idstr) \notin IdsOf(store))
       => /\ resp.status = 500
          /\ resp.msg = "Error fetching item"
          /\ resp.item = ZeroItem

C6_Witness ==
    /\ resp.op = "getItem"
    /\ resp.status = 500
    /\ Oid(resp.idstr) \in seen
    /\ Oid(resp.idstr) \notin IdsOf(store)

\* A page string that is a positive integer.
PositivePage(page) == ~Atoi(page).err /\ Atoi(page).n > 0

\* C7: getItems is answered 400 whenever page is given and is not a positive
\* integer: not a number, zero, or negative.
C7_BadPageIs400 ==
    [][\A q \in Queries, tie \in {1, -1} :
          (q.page # "" /\ ~PositivePage(q.page) /\ getItems(q, tie))
          => (resp'.status = 400 /\ resp'.items = <<>>)]_vars

\* C8: a getItems answered 200 returns the first min(10 * page, matches)
\* documents matching the category filter, without repetition, in the order of
\* the sortBy field (non-increasing for "desc", the default; non-decreasing
\* otherwise), and at most 10 * page of them.
C8_ListIsSortedPrefix ==
    [][\A q \in Queries, tie \in {1, -1} :
          (getItems(q, tie) /\ resp'.status = 200)
          => LET page == IF q.page = "" THEN 1 ELSE Atoi(q.page).n
                 key == IF q.sortBy = "" THEN "createdAt" ELSE q.sortBy
                 desc == q.sortOrder \in {"", "desc"}
                 matches == {d \in store : q.category = "" \/ d.Category = q.category}
                 items == resp'.items
             IN  /\ Len(items) = Min(PageSize * page, Cardinality(matches))
                 /\ Len(items) <= PageSize * page
                 /\ \A i \in 1..Len(items) : items[i] \in matches
                 /\ \A i, j \in 1..Len(items) : i # j => items[i] # items[j]
                 /\ \A i, j \in 1..Len(items) :
                       i < j => IF desc
                                THEN SortKey(items[i], key) >= SortKey(items[j], key)
                                ELSE SortKey(items[i], key) <= SortKey(items[j], key)
                 /\ \A d \in matches :
                       (\A i \in 1..Len(items) : items[i] # d)
                       => \A i \in 1..Len(items) :
                             IF desc
                             THEN SortKey(items[i], key) >= SortKey(d, key)
                             ELSE SortKey(items[i], key) <= SortKey(d, key)]_vars

\* What one updateItem request with body raw, run alone, leaves of document d.
Alone(d, raw) ==
    LET b == BodyParser(raw) IN
    IF b.err \/ NothingToUpdate(b.item) THEN d ELSE Merge(d, b.item)

\* Both racing requests have been issued and have completed.
RaceOver == issued = Procs /\ \A p \in Procs : upd[p].pc = "idle"

\* C9: when both of two racing updateItem requests on one document have
\* completed, the document is what running the two requests one after the
\* other, in one of the two orders, leaves.
C9_LastWriteWins ==
    RaceOver =>
        FindOne(store, base.ID).item \in
            {Alone(Alone(base, script[1]), script[2]),
             Alone(Alone(base, script[2]), script[1])}

\* C10: no step of updateItem adds or removes an identifier of the collection:
\* a document deleted between the two steps stays absent, and an update of an
\* identifier no document has creates none.  (The steps of updateItem are the
\* steps that change upd or answer as updateItem.)
C10_UpdateKeepsIds ==
    [][(upd' # upd \/ resp'.op = "updateItem") => IdsOf(store') = IdsOf(store)]_vars

C10_Witness ==
    /\ resp.op = "updateItem"
    /\ resp.status = 200
    /\ Oid(resp.idstr) \in seen
    /\ Oid(resp.idstr) \notin IdsOf(store)

====
